---- MODULE Spec2Model ----
(***************************************************************************)
(* Stop-string detection (mlx_engine/stop_string_processor.py) and the     *)
(* streaming generation loop (mlx_engine/generate.py, create_generator).   *)
(*                                                                         *)
(* Text is a sequence of one-character strings; a token is an integer id.  *)
(* Optional[T] is a sequence of length at most one: None is <<>>, a value  *)
(* v is <<v>>.                                                             *)
(***************************************************************************)
EXTENDS Integers, Sequences, FiniteSets, TLC

\* ------------------------------------------------------------------ bounds
\* Largest max_tokens a run is configured with.
MaxTokens == 3
\* Largest number of configured stop strings.
MaxStops == 2

\* --------------------------------------------------------------- constants
MAX_TOP_LOGPROBS == 10

None == <<>>

Some(v) == <<v>>

\* ----------------------------------------------------------- the tokenizer
\* The tokenizer is an external collaborator; this is a small byte-level
\* vocabulary with the two features the engine's comments call critical:
\* a string that spans several tokens ("ab" as 1,2 or as the single token 3)
\* and a character that spans several tokens ("X" is 7,8,9, each of which
\* alone decodes to no visible text).
Vocabulary == {1, 2, 3, 5, 7, 8, 9}

GlyphPieces == {7, 8, 9}

TokText(t) ==
    CASE t = 1 -> <<"a">>
      [] t = 2 -> <<"b">>
      [] t = 3 -> <<"a", "b">>
      [] t = 5 -> <<"c">>
      [] OTHER -> <<>>

\* The text the i-th token of seq contributes to the decoding of seq.
PieceText(seq, i) ==
    IF seq[i] \in GlyphPieces
    THEN IF seq[i] = 9 /\ i >= 3 /\ seq[i - 1] = 8 /\ seq[i - 2] = 7
         THEN <<"X">>
         ELSE <<>>
    ELSE TokText(seq[i])

RECURSIVE DecodeUpTo(_, _)
DecodeUpTo(seq, n) ==
    IF n = 0 THEN <<>> ELSE DecodeUpTo(seq, n - 1) \o PieceText(seq, n)

\* tokenizer.decode(token ids)
Decode(seq) == DecodeUpTo(seq, Len(seq))

\* tokenizer.encode(text): greedy longest match over the vocabulary.
RECURSIVE Encode(_)
Encode(s) ==
    IF s = <<>> THEN <<>>
    ELSE IF Len(s) >= 2 /\ s[1] = "a" /\ s[2] = "b"
         THEN <<3>> \o Encode(SubSeq(s, 3, Len(s)))
    ELSE IF s[1] = "X" THEN <<7, 8, 9>> \o Encode(Tail(s))
    ELSE IF s[1] = "a" THEN <<1>> \o Encode(Tail(s))
    ELSE IF s[1] = "b" THEN <<2>> \o Encode(Tail(s))
    ELSE <<5>> \o Encode(Tail(s))

\* ------------------------------------------------- stop_string_processor.py
Min(a, b) == IF a <= b THEN a ELSE b

\* str.find: the lowest 0-based index at which sub occurs in s, or -1.
RECURSIVE FindFrom(_, _, _)
FindFrom(s, sub, i) ==
    IF i + Len(sub) > Len(s) THEN -1
    ELSE IF SubSeq(s, i + 1, i + Len(sub)) = sub THEN i
    ELSE FindFrom(s, sub, i + 1)

Find(s, sub) == FindFrom(s, sub, 0)

\* sequence_overlap with range(1, max_overlap): the longest overlap is not
\* tried.
sequence_overlap_short(s1, s2) ==
    LET max_overlap == Min(Len(s1), Len(s2))
    IN  \E i \in 1..(max_overlap - 1) :
            SubSeq(s1, Len(s1) - i + 1, Len(s1)) = SubSeq(s2, 1, i)

\* sequence_overlap(s1, s2): any(s1[-i:] == s2[:i] for i in 1..min(len))
sequence_overlap(s1, s2) ==
    LET max_overlap == Min(Len(s1), Len(s2))
    IN  \E i \in 1..max_overlap :
            SubSeq(s1, Len(s1) - i + 1, Len(s1)) = SubSeq(s2, 1, i)

\* earliest_match with the "position != -1" test left out.
RECURSIVE EarliestMatchNoGuard(_, _, _)
EarliestMatchNoGuard(string, stop_strings, n) ==
    IF n = 0 THEN [position |-> -1, stop_string |-> None]
    ELSE LET em == EarliestMatchNoGuard(string, stop_strings, n - 1)
             position == Find(string, stop_strings[n])
         IN  IF em.stop_string = None \/ position < em.position
             THEN [position |-> position,
                   stop_string |-> Some(stop_strings[n])]
             ELSE em

\* earliest_match with "<=" for "<": the last configured stop string wins a tie.
RECURSIVE EarliestMatchLastWins(_, _, _)
EarliestMatchLastWins(string, stop_strings, n) ==
    IF n = 0 THEN [position |-> -1, stop_string |-> None]
    ELSE LET em == EarliestMatchLastWins(string, stop_strings, n - 1)
             position == Find(string, stop_strings[n])
         IN  IF position # -1
                /\ (em.stop_string = None \/ position <= em.position)
             THEN [position |-> position,
                   stop_string |-> Some(stop_strings[n])]
             ELSE em

\* earliest_match after the first n stop strings have been visited.
\* position is meaningful only once stop_string is not None (it starts at
\* float("inf"), below which every found position lies).
RECURSIVE EarliestMatch(_, _, _)
EarliestMatch(string, stop_strings, n) ==
    IF n = 0 THEN [position |-> -1, stop_string |-> None]
    ELSE LET em == EarliestMatch(string, stop_strings, n - 1)
             position == Find(string, stop_strings[n])
         IN  IF position # -1
                /\ (em.stop_string = None \/ position < em.position)
             THEN [position |-> position,
                   stop_string |-> Some(stop_strings[n])]
             ELSE em

\* check_full_text_match: None, or the full_stop result.
check_full_text_match(string, stop_strings) ==
    LET earliest_match == EarliestMatch(string, stop_strings, Len(stop_strings))
    IN  IF earliest_match.stop_string # None
        THEN Some([status |-> "full_stop",
                   stop_string |-> earliest_match.stop_string])
        ELSE None

\* check_partial_token_match that never finds a partial match.
check_partial_token_match_never(token_sequence, stop_token_sequences) == None

check_partial_token_match(token_sequence, stop_token_sequences) ==
    IF \E k \in 1..Len(stop_token_sequences) :
           sequence_overlap(token_sequence, stop_token_sequences[k])
    THEN Some([status |-> "partial_match", stop_string |-> None])
    ELSE None

\* check_partial_text_match that never finds a partial match.
check_partial_text_match_never(string, stop_strings) == None

check_partial_text_match(string, stop_strings) ==
    IF \E k \in 1..Len(stop_strings) :
           sequence_overlap(string, stop_strings[k])
    THEN Some([status |-> "partial_match", stop_string |-> None])
    ELSE None

\* a or b: the first operand when it is not None.
OrElse(a, b) == IF a # None THEN a ELSE b

\* stopping_criteria with the partial token match tried before the full
\* text match.
stopping_criteria_token_first(string, token_sequence, stop_strings, stop_token_sequences) ==
    OrElse(check_partial_token_match(token_sequence, stop_token_sequences),
    OrElse(check_full_text_match(string, stop_strings),
    OrElse(check_partial_text_match(string, stop_strings),
           Some([status |-> "no_match", stop_string |-> None]))))[1]

stopping_criteria(string, token_sequence, stop_strings, stop_token_sequences) ==
    OrElse(check_full_text_match(string, stop_strings),
    OrElse(check_partial_token_match(token_sequence, stop_token_sequences),
    OrElse(check_partial_text_match(string, stop_strings),
           Some([status |-> "no_match", stop_string |-> None]))))[1]

\* StopStringProcessor.__init__: the token sequences of the stop strings.
StopTokenSequences(stop_strings) ==
    [k \in 1..Len(stop_strings) |-> Encode(stop_strings[k])]

\* process_token with the append placed before the test for an empty list
\* of stop strings.
process_token_append_first(stop_strings, token_id_buffer, tokens) ==
    LET appended == Append(token_id_buffer, tokens)
    IN  IF Len(stop_strings) = 0
        THEN [result |-> [status |-> "no_match", stop_string |-> None,
                          stop_tokens |-> None],
              buffer |-> appended]
        ELSE LET result == stopping_criteria(Decode(appended), appended,
                               stop_strings, StopTokenSequences(stop_strings))
             IN  CASE result.status = "no_match" ->
                        [result |-> [status |-> "no_match",
                                     stop_string |-> None,
                                     stop_tokens |-> None],
                         buffer |-> <<>>]
                   [] result.status = "partial_match" ->
                        [result |-> [status |-> "partial_match",
                                     stop_string |-> None,
                                     stop_tokens |-> None],
                         buffer |-> appended]
                   [] result.status = "full_stop" ->
                        [result |-> [status |-> "full_stop",
                                     stop_string |-> result.stop_string,
                                     stop_tokens |-> Some(appended)],
                         buffer |-> appended]

\* process_token emptying the buffer on partial_match as it does on no_match.
process_token_clears_on_partial(stop_strings, token_id_buffer, tokens) ==
    IF Len(stop_strings) = 0
    THEN [result |-> [status |-> "no_match", stop_string |-> None,
                      stop_tokens |-> None],
          buffer |-> token_id_buffer]
    ELSE LET appended == Append(token_id_buffer, tokens)
             result == stopping_criteria(Decode(appended), appended,
                           stop_strings, StopTokenSequences(stop_strings))
         IN  CASE result.status = "no_match" ->
                    [result |-> [status |-> "no_match", stop_string |-> None,
                                 stop_tokens |-> None],
                     buffer |-> <<>>]
               [] result.status = "partial_match" ->
                    [result |-> [status |-> "partial_match",
                                 stop_string |-> None, stop_tokens |-> None],
                     buffer |-> <<>>]
               [] result.status = "full_stop" ->
                    [result |-> [status |-> "full_stop",
                                 stop_string |-> result.stop_string,
                                 stop_tokens |-> Some(appended)],
                     buffer |-> appended]

\* process_token emptying the buffer after a full_stop.
process_token_resets_on_full_stop(stop_strings, token_id_buffer, tokens) ==
    IF Len(stop_strings) = 0
    THEN [result |-> [status |-> "no_match", stop_string |-> None,
                      stop_tokens |-> None],
          buffer |-> token_id_buffer]
    ELSE LET appended == Append(token_id_buffer, tokens)
             result == stopping_criteria(Decode(appended), appended,
                           stop_strings, StopTokenSequences(stop_strings))
         IN  CASE result.status = "no_match" ->
                    [result |-> [status |-> "no_match", stop_string |-> None,
                                 stop_tokens |-> None],
                     buffer |-> <<>>]
               [] result.status = "partial_match" ->
                    [result |-> [status |-> "partial_match",
                                 stop_string |-> None, stop_tokens |-> None],
                     buffer |-> appended]
               [] result.status = "full_stop" ->
                    [result |-> [status |-> "full_stop",
                                 stop_string |-> result.stop_string,
                                 stop_tokens |-> Some(appended)],
                     buffer |-> <<>>]

\* process_token returning only the newest token as stop_tokens.
process_token_newest_only(stop_strings, token_id_buffer, tokens) ==
    IF Len(stop_strings) = 0
    THEN [result |-> [status |-> "no_match", stop_string |-> None,
                      stop_tokens |-> None],
          buffer |-> token_id_buffer]
    ELSE LET appended == Append(token_id_buffer, tokens)
             result == stopping_criteria(Decode(appended), appended,
                           stop_strings, StopTokenSequences(stop_strings))
         IN  CASE result.status = "no_match" ->
                    [result |-> [status |-> "no_match", stop_string |-> None,
                                 stop_tokens |-> None],
                     buffer |-> <<>>]
               [] result.status = "partial_match" ->
                    [result |-> [status |-> "partial_match",
                                 stop_string |-> None, stop_tokens |-> None],
                     buffer |-> appended]
               [] result.status = "full_stop" ->
                    [result |-> [status |-> "full_stop",
                                 stop_string |-> result.stop_string,
                                 stop_tokens |-> Some(<<tokens>>)],
                     buffer |-> appended]

\* StopStringProcessor.process_token on a processor whose buffer is
\* token_id_buffer: the result returned and the buffer afterwards.
process_token(stop_strings, token_id_buffer, tokens) ==
    IF Len(stop_strings) = 0
    THEN [result |-> [status |-> "no_match", stop_string |-> None,
                      stop_tokens |-> None],
          buffer |-> token_id_buffer]
    ELSE LET appended == Append(token_id_buffer, tokens)
             result == stopping_criteria(Decode(appended), appended,
                           stop_strings, StopTokenSequences(stop_strings))
         IN  CASE result.status = "no_match" ->
                    [result |-> [status |-> "no_match", stop_string |-> None,
                                 stop_tokens |-> None],
                     buffer |-> <<>>]
               [] result.status = "partial_match" ->
                    [result |-> [status |-> "partial_match",
                                 stop_string |-> None, stop_tokens |-> None],
                     buffer |-> appended]
               [] result.status = "full_stop" ->
                    [result |-> [status |-> "full_stop",
                                 stop_string |-> result.stop_string,
                                 stop_tokens |-> Some(appended)],
                     buffer |-> appended]

\* ------------------------------------------------------------- generate.py
VARIABLES
    stop_strings,           \* create_generator argument (None is the empty list)
    max_tokens,             \* create_generator argument
    top_logprobs,           \* create_generator argument, Optional[int]
    pc,                     \* "start", "loop", "done" or "error"
    token_id_buffer,        \* the stop processor's pending token ids
    token_buffer,           \* TokenLogprob records since the last emission
    top_logprobs_buffer,    \* top-k summaries since the last emission
    text,                   \* text accumulated since the last emission
    stop_processor_result,  \* the result of the last process_token call
    requested,              \* how many tokens the token source has produced
    pulled,                 \* the tokens the token source has produced so far
    emitted,                \* the GenerationResults yielded so far
    held,                   \* the results of process_token its caller holds
    call                    \* a call of a module-level function and its return

vars == <<stop_strings, max_tokens, top_logprobs, pc, token_id_buffer,
          token_buffer, top_logprobs_buffer, text, stop_processor_result,
          requested, pulled, emitted, held, call>>

\* The stop strings a run is configured from.
StopCandidates == {<<"a">>, <<"a", "b">>, <<"b">>, <<"X">>}

\* Lists of distinct stop strings, at most MaxStops long.
StopLists ==
    UNION {{s \in [1..n -> StopCandidates] :
               \A i, j \in 1..n : i # j => s[i] # s[j]} : n \in 0..MaxStops}

\* stop_processor_result = None, before the first token.
NoResult == [status |-> "None", stop_string |-> None, stop_tokens |-> None]

\* No module-level function is being called.
NoCall == [fn |-> "None", args |-> <<>>, ret |-> None]

\* create_generator without the validation of top_logprobs.
TopLogprobsNeverRejected(k) == FALSE

\* The validation of top_logprobs: TRUE when create_generator raises.
TopLogprobsRejected(k) == k > MAX_TOP_LOGPROBS

\* top_logprobs after "if top_logprobs is None: top_logprobs = 0".
TopLogprobsOrZero(k) == IF k = None THEN 0 ELSE k[1]

Init ==
    /\ stop_strings \in StopLists
    /\ max_tokens \in -1..MaxTokens
    /\ top_logprobs \in {None, Some(MAX_TOP_LOGPROBS), Some(MAX_TOP_LOGPROBS + 1)}
    /\ pc = "start"
    /\ token_id_buffer = <<>>
    /\ token_buffer = <<>>
    /\ top_logprobs_buffer = <<>>
    /\ text = <<>>
    /\ stop_processor_result = NoResult
    /\ requested = 0
    /\ pulled = <<>>
    /\ emitted = <<>>
    /\ held = <<>>
    /\ call = NoCall

\* create_generator up to the token loop: the sampler set-up, the
\* validation of top_logprobs and the empty buffers.
Start ==
    /\ pc = "start"
    /\ top_logprobs' = Some(TopLogprobsOrZero(top_logprobs))
    /\ pc' = IF TopLogprobsRejected(TopLogprobsOrZero(top_logprobs))
             THEN "error" ELSE "loop"
    /\ token_buffer' = <<>>
    /\ top_logprobs_buffer' = <<>>
    /\ text' = <<>>
    /\ stop_processor_result' = NoResult
    /\ UNCHANGED <<stop_strings, max_tokens, token_id_buffer, requested,
                   pulled, emitted, held, call>>

\* A token source that produces one token more than its budget.
SourceHasNextInclusive(n, budget) == n <= budget

\* stream_generate(max_tokens=max_tokens) has another token to produce:
\* it produces one per element of range(max_tokens).
SourceHasNext(n, budget) == n < budget

\* generation_result.text: the segment the streaming detokenizer gives for
\* the newest token, after the tokens before it.
Fragment(before, token) == PieceText(Append(before, token), Len(before) + 1)

\* TokenLogprob(token, tokenizer.decode(token), logprob); the float is left out.
TokenLogprob(token) == [id |-> token, text |-> Decode(<<token>>)]

\* summarize_top_logprobs(tokenizer, logprobs, top_logprobs): the k best
\* alternatives of the step that produced token.
summarize_top_logprobs(token, k) == [step |-> token, k |-> k]

\* The loop's result carrying the verdict of the step as its stop condition.
LoopResultStamped(t, tb, tlb) ==
    [text |-> t, tokens |-> tb,
     stop_condition |-> Some([stop_reason |-> "None", stop_string |-> None,
                              stop_tokens |-> None]),
     top_logprobs |-> tlb]

\* The result yielded inside the token loop.
LoopResult(t, tb, tlb) ==
    [text |-> t, tokens |-> tb, stop_condition |-> None, top_logprobs |-> tlb]

\* The result yielded after the loop.
FinalResult(t, tb, tlb, cond) ==
    [text |-> t, tokens |-> tb, stop_condition |-> Some(cond),
     top_logprobs |-> tlb]

\* stop_processor_result.stop_reason: a full stop reported by the stop-string
\* processor is a stop-string match.
StopReason(result) ==
    IF result.status = "full_stop" THEN "stop_string" ELSE "None"

\* stop_processor.finalize(text, stop_processor_result): the final text and
\* the stop condition. why is how the token source ended ("eos_token" or
\* "max_tokens") when the loop was not left by a full stop.
finalize(t, result, why) ==
    IF result.status = "full_stop" /\ StopReason(result) # "eos_token"
    THEN LET at == Find(t, result.stop_string[1])
         IN  [text |-> IF at = -1 THEN t ELSE SubSeq(t, 1, at),
              cond |-> [stop_reason |-> "stop_string",
                        stop_string |-> result.stop_string,
                        stop_tokens |-> result.stop_tokens]]
    ELSE [text |-> t,
          cond |-> [stop_reason |-> why, stop_string |-> None,
                    stop_tokens |-> None]]

\* The statements after the loop with the last yield made from emptied
\* buffers.
AfterLoopEmptyBuffers(t, tb, tlb, result, why) ==
    LET fin == finalize(t, result, why)
    IN  [text |-> fin.text, token_buffer |-> <<>>,
         top_logprobs_buffer |-> <<>>,
         emit |-> Some(FinalResult(fin.text, <<>>, <<>>, fin.cond)),
         pc |-> "done"]

\* The statements after the loop with the last yield left out unless the
\* loop was left by a full stop.
AfterLoopNoFlush(t, tb, tlb, result, why) ==
    LET fin == finalize(t, result, why)
    IN  [text |-> fin.text, token_buffer |-> tb, top_logprobs_buffer |-> tlb,
         emit |-> IF result.status = "full_stop"
                  THEN Some(FinalResult(fin.text, tb, tlb, fin.cond))
                  ELSE None,
         pc |-> "done"]

\* The statements after the loop, finalize and the last yield: the locals
\* afterwards, the result yielded (emit) and where the run stands.
AfterLoop(t, tb, tlb, result, why) ==
    LET fin == finalize(t, result, why)
    IN  [text |-> fin.text, token_buffer |-> tb, top_logprobs_buffer |-> tlb,
         emit |-> Some(FinalResult(fin.text, tb, tlb, fin.cond)),
         pc |-> "done"]

\* The loop without the "break" on full_stop.
LoopOutcomeNoBreak(result, t) ==
    IF result.status = "partial_match" THEN "continue"
    ELSE IF t # <<>> THEN "yield"
    ELSE "next"

\* The loop without the "continue" on partial_match.
LoopOutcomeNoHold(result, t) ==
    IF result.status = "full_stop" THEN "break"
    ELSE IF t # <<>> THEN "yield"
    ELSE "next"

\* What the loop does with the verdict of a step; t is the accumulated text.
LoopOutcome(result, t) ==
    IF result.status = "full_stop" /\ StopReason(result) # "eos_token"
    THEN "break"
    ELSE IF result.status = "partial_match" THEN "continue"
    ELSE IF t # <<>> THEN "yield"
    ELSE "next"

\* One iteration of the token loop in which the yield is not followed by
\* "token_buffer = []".
IterationKeepsTokens(token) ==
    LET tb == Append(token_buffer, TokenLogprob(token))
        tlb == IF top_logprobs[1] # 0
               THEN Append(top_logprobs_buffer,
                           summarize_top_logprobs(token, top_logprobs[1]))
               ELSE top_logprobs_buffer
        pt == process_token(stop_strings, token_id_buffer, token)
        t == text \o Fragment(pulled, token)
        outcome == LoopOutcome(pt.result, t)
    IN  [requested |-> requested + 1,
         pulled |-> Append(pulled, token),
         token_id_buffer |-> pt.buffer,
         stop_processor_result |-> pt.result,
         after |->
            CASE outcome = "break" -> AfterLoop(t, tb, tlb, pt.result, "None")
              [] outcome = "yield" ->
                   [text |-> <<>>, token_buffer |-> tb,
                    top_logprobs_buffer |-> <<>>,
                    emit |-> Some(LoopResult(t, tb, tlb)), pc |-> "loop"]
              [] OTHER ->
                   [text |-> t, token_buffer |-> tb,
                    top_logprobs_buffer |-> tlb, emit |-> None,
                    pc |-> "loop"]]

\* One iteration of the token loop, for the token the source produces, up
\* to the next request for a token (or, after break, to the end of the run):
\* the source's and the stop processor's state afterwards, and in "after"
\* the loop's locals, the result yielded (if any) and where the run stands.
Iteration(token) ==
    LET tb == Append(token_buffer, TokenLogprob(token))
        tlb == IF top_logprobs[1] # 0
               THEN Append(top_logprobs_buffer,
                           summarize_top_logprobs(token, top_logprobs[1]))
               ELSE top_logprobs_buffer
        pt == process_token(stop_strings, token_id_buffer, token)
        t == text \o Fragment(pulled, token)
        outcome == LoopOutcome(pt.result, t)
    IN  [requested |-> requested + 1,
         pulled |-> Append(pulled, token),
         token_id_buffer |-> pt.buffer,
         stop_processor_result |-> pt.result,
         after |->
            CASE outcome = "break" -> AfterLoop(t, tb, tlb, pt.result, "None")
              [] outcome = "yield" ->
                   [text |-> <<>>, token_buffer |-> <<>>,
                    top_logprobs_buffer |-> <<>>,
                    emit |-> Some(LoopResult(t, tb, tlb)), pc |-> "loop"]
              [] OTHER ->
                   [text |-> t, token_buffer |-> tb,
                    top_logprobs_buffer |-> tlb, emit |-> None,
                    pc |-> "loop"]]

\* The last keep elements of s; all of s when keep is 0.
Recent(s, keep) ==
    IF keep = 0 \/ Len(s) <= keep THEN s
    ELSE SubSeq(s, Len(s) - keep + 1, Len(s))

\* The newest element of a history when a suffix is kept; all of s when
\* keep is 0.
Latest(s, keep) == IF keep = 0 THEN s ELSE Recent(s, 1)

\* The loop's locals and the yielded result take effect.
Commit(after, keep) ==
    /\ text' = Recent(after.text, keep)
    /\ token_buffer' = Recent(after.token_buffer, keep)
    /\ top_logprobs_buffer' = Recent(after.top_logprobs_buffer, keep)
    /\ emitted' = IF after.emit = None THEN emitted
                  ELSE Latest(Append(emitted, after.emit[1]), keep)
    /\ pc' = after.pc

LoopBody(token) ==
    /\ pc = "loop"
    /\ SourceHasNext(requested, max_tokens)
    /\ LET it == Iteration(token)
       IN  /\ requested' = it.requested
           /\ pulled' = it.pulled
           /\ token_id_buffer' = it.token_id_buffer
           /\ stop_processor_result' = it.stop_processor_result
           /\ Commit(it.after, 0)
    /\ UNCHANGED <<stop_strings, max_tokens, top_logprobs, held, call>>

Step == \E token \in Vocabulary : LoopBody(token)

\* The token source ends: the model produced its end-of-sequence token, or
\* the budget of max_tokens is used up. The loop is left normally.
SourceEnds ==
    /\ pc = "loop"
    /\ \E why \in {"eos_token", "max_tokens"} :
          /\ (why = "max_tokens") = ~SourceHasNext(requested, max_tokens)
          /\ Commit(AfterLoop(text, token_buffer, top_logprobs_buffer,
                              stop_processor_result, why), 0)
    /\ UNCHANGED <<stop_strings, max_tokens, top_logprobs, token_id_buffer,
                   stop_processor_result, requested, pulled, held, call>>

Next == Start \/ Step \/ SourceEnds

Spec == Init /\ [][Next]_vars

\* ------------------------------------------- runs under the default budget
\* max_tokens defaults to 10000000: to its caller such a run is a token
\* source that keeps producing. No check reaches the end of that budget, so
\* the growing buffers of such a run are kept as their last Horizon
\* elements, of the histories pulled and emitted the newest element is kept,
\* and the count of tokens produced is kept modulo 2.
\* The tokens of these runs all carry text, and no stop string is longer
\* than Horizon characters, so the first occurrence of a stop string and
\* every overlap with one lie within the kept suffix: each verdict, and with
\* it each break, continue and yield, is that of the whole run.
DefaultMaxTokens == 10000000

Horizon == 3

\* Largest max_tokens of the other runs of LiveSpec.
LiveTokens == 2

TextTokens == {t \in Vocabulary : TokText(t) # <<>>}

InitLive ==
    /\ stop_strings \in StopLists
    /\ max_tokens \in (-1..LiveTokens) \cup {DefaultMaxTokens}
    /\ top_logprobs \in {None, Some(MAX_TOP_LOGPROBS), Some(MAX_TOP_LOGPROBS + 1)}
    /\ pc = "start"
    /\ token_id_buffer = <<>>
    /\ token_buffer = <<>>
    /\ top_logprobs_buffer = <<>>
    /\ text = <<>>
    /\ stop_processor_result = NoResult
    /\ requested = 0
    /\ pulled = <<>>
    /\ emitted = <<>>
    /\ held = <<>>
    /\ call = NoCall

LongRunBody(token) ==
    /\ pc = "loop"
    /\ max_tokens = DefaultMaxTokens
    /\ SourceHasNext(requested, max_tokens)
    /\ LET it == Iteration(token)
       IN  /\ requested' = it.requested % 2
           /\ pulled' = Latest(it.pulled, Horizon)
           /\ token_id_buffer' = Recent(it.token_id_buffer, Horizon)
           /\ stop_processor_result' = it.stop_processor_result
           /\ Commit(it.after, Horizon)
    /\ UNCHANGED <<stop_strings, max_tokens, top_logprobs, held, call>>

LongRunStep == \E token \in TextTokens : LongRunBody(token)

BudgetedStep == max_tokens # DefaultMaxTokens /\ Step

NextLive == Start \/ BudgetedStep \/ LongRunStep \/ SourceEnds

\* A step of a run, seen from outside: set-up is left, a token is
\* requested, or the run ends. Every step of NextLive is one (it changes pc
\* or requested), and one is possible exactly when NextLive is.
Advance ==
    /\ pc \in {"start", "loop"}
    /\ pc' \in {"loop", "done", "error"}
    /\ requested' \in 0..(LiveTokens + 1)

\* The caller consumes the generator and the token source answers every
\* request: the run takes its next step whenever it has one.
LiveSpec ==
    InitLive /\ [][NextLive]_vars /\ WF_<<pc, requested>>(Advance)

\* ------------------------------------------------------------------ claims
\* The text of all emitted results, in emission order.
RECURSIVE EmittedTextUpTo(_)
EmittedTextUpTo(n) ==
    IF n = 0 THEN <<>> ELSE EmittedTextUpTo(n - 1) \o emitted[n].text

EmittedText == EmittedTextUpTo(Len(emitted))

\* The 0-based positions at which sub occurs in s.
Occurrences(s, sub) ==
    {i \in 0..(Len(s) - Len(sub)) : SubSeq(s, i + 1, i + Len(sub)) = sub}

FirstOccurrence(s, sub) ==
    CHOOSE i \in Occurrences(s, sub) : \A j \in Occurrences(s, sub) : i <= j

\* The whole text the token source has produced.
FullText == Decode(pulled)

LastEmitted == emitted[Len(emitted)]

\* C1: in a run consumed to completion exactly one emitted result carries a
\* stop condition and it is the last one; every result emitted inside the
\* token loop carries none.
C1_OneStopConditionLast ==
    /\ pc = "done" =>
          /\ Len(emitted) >= 1
          /\ LastEmitted.stop_condition # None
          /\ \A i \in 1..(Len(emitted) - 1) : emitted[i].stop_condition = None
    /\ pc = "loop" =>
          \A i \in 1..Len(emitted) : emitted[i].stop_condition = None

C1_Witness ==
    /\ pc = "done"
    /\ Len(emitted) >= 3
    /\ LastEmitted.stop_condition # None

\* C2: with a single stop string that occurs exactly once in the full
\* decoded text, the emitted text is the full text up to (excluding) that
\* occurrence and the final stop condition names the stop string.
C2_SingleStopTruncates ==
    (/\ pc = "done"
     /\ Len(stop_strings) = 1
     /\ Cardinality(Occurrences(FullText, stop_strings[1])) = 1)
    => /\ EmittedText =
             SubSeq(FullText, 1, FirstOccurrence(FullText, stop_strings[1]))
       /\ LastEmitted.stop_condition[1].stop_string = Some(stop_strings[1])

\* The stop string "ab" arrives split over two tokens after other text.
C2_Witness ==
    /\ pc = "done"
    /\ stop_strings = << <<"a", "b">> >>
    /\ pulled = <<5, 1, 2>>
    /\ EmittedText = <<"c">>

\* C3: when the decoded text contains none of the stop strings, the emitted
\* text is the whole decoded text and the final stop condition is
\* end-of-sequence or max-tokens.
C3_NoStopNothingDropped ==
    (/\ pc = "done"
     /\ \A k \in 1..Len(stop_strings) :
            Occurrences(FullText, stop_strings[k]) = {})
    => /\ EmittedText = FullText
       /\ LastEmitted.stop_condition[1].stop_reason
              \in {"eos_token", "max_tokens"}
       /\ LastEmitted.stop_condition[1].stop_string = None

\* Text withheld during a partial match is delivered by the final result.
C3_Witness ==
    /\ pc = "done"
    /\ stop_strings # <<>>
    /\ stop_processor_result.status = "partial_match"
    /\ LastEmitted.text # <<>>
    /\ Len(emitted) >= 2
    /\ \A k \in 1..Len(stop_strings) :
           Occurrences(FullText, stop_strings[k]) = {}

\* The ids of a list of token records.
Ids(records) == [i \in 1..Len(records) |-> records[i].id]

IsSuffix(s, t) ==
    Len(s) <= Len(t) /\ SubSeq(t, Len(t) - Len(s) + 1, Len(t)) = s

\* C4: a step whose verdict is partial-match emits nothing and only
\* accumulates the step's text and token record; the tokens of an unresolved
\* partial match are all still unflushed.
C4_PartialMatchWithholds ==
    /\ [][(pulled' # pulled /\ stop_processor_result'.status = "partial_match")
            => /\ emitted' = emitted
               /\ text' = text \o Fragment(pulled, pulled'[Len(pulled')])
               /\ Ids(token_buffer') =
                      Append(Ids(token_buffer), pulled'[Len(pulled')])]_vars
    /\ [](stop_processor_result.status = "partial_match"
            => IsSuffix(token_id_buffer, Ids(token_buffer)))

C4_Witness ==
    /\ pc = "loop"
    /\ stop_processor_result.status = "partial_match"
    /\ Len(emitted) >= 1
    /\ Len(token_id_buffer) >= 2
    /\ text # <<>>

\* The position of a stop string in the configured list.
ConfiguredAt(s) == CHOOSE k \in 1..Len(stop_strings) : stop_strings[k] = s

\* C5: the stop string of a full stop is the one whose first occurrence in
\* the evaluated text is lowest, whatever the configured order; among those
\* starting at the same lowest index it is the one configured first.
C5_EarliestStopWins ==
    stop_processor_result.status = "full_stop" =>
        LET evaluated == Decode(token_id_buffer)
            won == stop_processor_result.stop_string[1]
        IN  /\ Occurrences(evaluated, won) # {}
            /\ \A k \in 1..Len(stop_strings) :
                   Occurrences(evaluated, stop_strings[k]) # {} =>
                       /\ FirstOccurrence(evaluated, won)
                              <= FirstOccurrence(evaluated, stop_strings[k])
                       /\ FirstOccurrence(evaluated, won)
                              = FirstOccurrence(evaluated, stop_strings[k])
                            => ConfiguredAt(won) <= k

\* Two stop strings occur and the one configured second, starting earlier,
\* wins.
C5_Witness ==
    /\ stop_processor_result.status = "full_stop"
    /\ Len(stop_strings) = 2
    /\ \A k \in 1..2 : Occurrences(Decode(token_id_buffer), stop_strings[k]) # {}
    /\ stop_processor_result.stop_string = Some(stop_strings[2])

\* C7: with the stop string "X", whose token encoding is 7,8,9: tokens 7
\* and 8 are partial matches; a following token 5 gives no-match, clears the
\* pending buffer and the loop flushes what it withheld for 7 and 8 in one
\* result; a following token 9 gives a full stop with stop_tokens 7,8,9.
C7_MultiTokenCharacter ==
    (stop_strings = << <<"X">> >> /\ pc \in {"loop", "done"}) =>
        /\ StopTokenSequences(stop_strings) = << <<7, 8, 9>> >>
        /\ pulled \in {<<7>>, <<7, 8>>} =>
              /\ stop_processor_result.status = "partial_match"
              /\ token_id_buffer = pulled
              /\ Ids(token_buffer) = pulled
              /\ pc = "loop" => emitted = <<>>
        /\ pulled = <<7, 8, 5>> =>
              /\ stop_processor_result.status = "no_match"
              /\ token_id_buffer = <<>>
              /\ Len(emitted) >= 1
              /\ Ids(emitted[1].tokens) = <<7, 8, 5>>
              /\ emitted[1].text = FullText
              /\ emitted[1].stop_condition = None
        /\ pulled = <<7, 8, 9>> =>
              /\ stop_processor_result.status = "full_stop"
              /\ stop_processor_result.stop_string = Some(<<"X">>)
              /\ stop_processor_result.stop_tokens = Some(<<7, 8, 9>>)

C7_Witness ==
    /\ stop_strings = << <<"X">> >>
    /\ pulled = <<7, 8, 5>>
    /\ pc = "loop"
    /\ Len(emitted) = 1
    /\ token_buffer = <<>>

\* C8: with no stop strings every process_token call returns no-match and
\* leaves the pending buffer empty, and the loop emits a result at every
\* step at which the accumulated text is not empty.
C8_NoStopStringsNoBuffering ==
    /\ [](stop_strings = <<>> =>
             /\ token_id_buffer = <<>>
             /\ stop_processor_result.status \in {"None", "no_match"}
             /\ pc = "loop" => text = <<>>)
    /\ [][(stop_strings = <<>> /\ pulled' # pulled)
            => /\ stop_processor_result'.status = "no_match"
               /\ IF text \o Fragment(pulled, pulled'[Len(pulled')]) # <<>>
                  THEN /\ Len(emitted') = Len(emitted) + 1
                       /\ emitted'[Len(emitted')].text =
                              text \o Fragment(pulled, pulled'[Len(pulled')])
                  ELSE emitted' = emitted]_vars

\* Steps with and without visible text, each flushed as soon as it has some.
C8_Witness ==
    /\ stop_strings = <<>>
    /\ pc = "loop"
    /\ pulled = <<1, 7, 2>>
    /\ Len(emitted) = 2

\* C9: a run with max_tokens = 0 emits exactly one result: empty text, empty
\* tokens and top_logprobs, and a max-tokens stop condition.
C9_ZeroBudget ==
    max_tokens = 0 =>
        /\ pulled = <<>>
        /\ pc = "done" =>
              emitted = << [text |-> <<>>, tokens |-> <<>>,
                            top_logprobs |-> <<>>,
                            stop_condition |->
                                Some([stop_reason |-> "max_tokens",
                                      stop_string |-> None,
                                      stop_tokens |-> None])] >>
        /\ pc # "done" => emitted = <<>>

C9_Witness == max_tokens = 0 /\ pc = "done" /\ Len(emitted) = 1

\* C10: a top_logprobs above MAX_TOP_LOGPROBS fails the run before any token
\* is requested from the source and before any result is emitted.
C10_TopLogprobsFailFast ==
    (top_logprobs # None /\ top_logprobs[1] > MAX_TOP_LOGPROBS) =>
        /\ pc \in {"start", "error"}
        /\ pulled = <<>>
        /\ emitted = <<>>

C10_Witness ==
    pc = "error" /\ top_logprobs = Some(MAX_TOP_LOGPROBS + 1) /\ max_tokens > 0

\* Text is being withheld from the caller.
Withheld == pc = "loop" /\ text # <<>>

\* Everything withheld has been handed over: by a yield of the loop, or by
\* the final result (which delivers it, or excises the part a full stop
\* confirmed).
Flushed ==
    \/ pc = "loop" /\ token_buffer = <<>>
    \/ /\ pc = "done"
       /\ emitted # <<>>
       /\ LastEmitted.stop_condition # None

\* C6 as stated: withheld text is never withheld forever, also when the
\* token source keeps producing tokens.
C6_NeverWithholdsForever == Withheld ~> Flushed

\* C6 as amended: in a run whose budget ends the token source, withheld
\* text is eventually delivered in an emitted result or excised by a
\* confirmed full stop.
C6_DeliveredOnceSourceEnds ==
    (max_tokens # DefaultMaxTokens /\ Withheld) ~> Flushed

\* Text withheld during a partial match reaches the caller when the budget
\* ends the run.
C6_Witness ==
    /\ pc = "done"
    /\ max_tokens = LiveTokens
    /\ Len(pulled) = max_tokens
    /\ stop_processor_result.status = "partial_match"
    /\ Len(LastEmitted.tokens) >= 2
    /\ LastEmitted.text # <<>>
    /\ LastEmitted.stop_condition[1].stop_reason = "max_tokens"

\* C11: a negative max_tokens fails the run as a configuration error before
\* any token is requested from the source: the run never enters the token
\* loop and emits nothing.
C11_NegativeBudgetRejected ==
    max_tokens < 0 =>
        /\ pc \in {"start", "error"}
        /\ pulled = <<>>
        /\ emitted = <<>>

\* ------------------------------------- calls of the module-level functions
\* stopping_criteria and sequence_overlap are functions of their arguments
\* alone. A call is made with arguments drawn from the sets below and its
\* return value is recorded.
\* Longest string of a call.
MaxText == 3
\* Longest token sequence of a call.
MaxSeq == 2

SeqsUpTo(S, n) == UNION {[1..k -> S] : k \in 0..n}

CallStrings == SeqsUpTo({"a", "b"}, MaxText)

CallTokenSequences == SeqsUpTo({1, 7, 8}, MaxSeq)

OverlapCalls ==
    {[fn |-> "sequence_overlap", args |-> <<s1, s2>>, ret |-> None] :
        s1 \in CallStrings, s2 \in CallStrings}

CriteriaCalls ==
    {[fn |-> "stopping_criteria",
      args |-> <<string, token_sequence, ss, StopTokenSequences(ss)>>,
      ret |-> None] :
        string \in CallStrings, token_sequence \in CallTokenSequences,
        ss \in StopLists}

CallInit ==
    /\ call \in OverlapCalls \cup CriteriaCalls
    /\ pc = "call"
    /\ stop_strings = <<>>
    /\ max_tokens = 0
    /\ top_logprobs = None
    /\ token_id_buffer = <<>>
    /\ token_buffer = <<>>
    /\ top_logprobs_buffer = <<>>
    /\ text = <<>>
    /\ stop_processor_result = NoResult
    /\ requested = 0
    /\ pulled = <<>>
    /\ emitted = <<>>
    /\ held = <<>>

CallSequenceOverlap ==
    /\ pc = "call"
    /\ call.fn = "sequence_overlap"
    /\ call' = [call EXCEPT
                  !.ret = Some(sequence_overlap(call.args[1], call.args[2]))]
    /\ pc' = "returned"
    /\ UNCHANGED <<stop_strings, max_tokens, top_logprobs, token_id_buffer,
                   token_buffer, top_logprobs_buffer, text,
                   stop_processor_result, requested, pulled, emitted, held>>

CallStoppingCriteria ==
    /\ pc = "call"
    /\ call.fn = "stopping_criteria"
    /\ call' = [call EXCEPT
                  !.ret = Some(stopping_criteria(call.args[1], call.args[2],
                                                 call.args[3], call.args[4]))]
    /\ pc' = "returned"
    /\ UNCHANGED <<stop_strings, max_tokens, top_logprobs, token_id_buffer,
                   token_buffer, top_logprobs_buffer, text,
                   stop_processor_result, requested, pulled, emitted, held>>

CallNext == CallSequenceOverlap \/ CallStoppingCriteria

CallSpec == CallInit /\ [][CallNext]_vars

\* The last k elements of a are the first k elements of b.
OverlapOfLength(a, b, k) ==
    /\ k <= Len(a)
    /\ k <= Len(b)
    /\ \A j \in 1..k : a[Len(a) - k + j] = b[j]

\* Some non-empty suffix of a is a prefix of b.
SuffixIsPrefix(a, b) == \E k \in 1..Len(a) : OverlapOfLength(a, b, k)

\* C12: stopping_criteria returns full-stop iff some stop string occurs in
\* the text; otherwise partial-match iff a non-empty suffix of the token
\* sequence is a prefix of some stop token sequence or a non-empty suffix of
\* the text is a prefix of some stop string; otherwise no-match.
C12_StoppingCriteriaVerdict ==
    (call.fn = "stopping_criteria" /\ call.ret # None) =>
        LET string == call.args[1]
            token_sequence == call.args[2]
            ss == call.args[3]
            sts == call.args[4]
            full == \E k \in 1..Len(ss) : Occurrences(string, ss[k]) # {}
            partial ==
                \/ \E k \in 1..Len(sts) : SuffixIsPrefix(token_sequence, sts[k])
                \/ \E k \in 1..Len(ss) : SuffixIsPrefix(string, ss[k])
        IN  call.ret[1].status =
                IF full THEN "full_stop"
                ELSE IF partial THEN "partial_match"
                ELSE "no_match"

\* A full text match returned although the token sequence partially matches
\* the stop token sequence of "X" and the text ends in the beginning of the
\* stop string "ab".
C12_Witness ==
    /\ call.fn = "stopping_criteria"
    /\ call.ret # None
    /\ call.ret[1].status = "full_stop"
    /\ call.args[1] = <<"a", "b", "a">>
    /\ call.args[2] = <<7, 8>>
    /\ call.args[3] = << <<"X">>, <<"a", "b">> >>

\* C13: sequence_overlap(a, b) is true iff for some k with
\* 1 <= k <= min(len(a), len(b)) the last k elements of a are the first k
\* elements of b; it is false when a or b is empty; the call leaves a and b
\* as they were.
C13_SequenceOverlap ==
    /\ []((call.fn = "sequence_overlap" /\ call.ret # None) =>
            LET a == call.args[1]
                b == call.args[2]
            IN  /\ call.ret[1] =
                       (\E k \in 1..Min(Len(a), Len(b)) : OverlapOfLength(a, b, k))
                /\ (a = <<>> \/ b = <<>>) => call.ret[1] = FALSE)
    /\ [][call.fn = "sequence_overlap" => call'.args = call.args]_vars

\* The only overlap has the length of the shorter sequence.
C13_Witness ==
    /\ call.fn = "sequence_overlap"
    /\ call.args = << <<"a", "b">>, <<"a", "b", "a">> >>
    /\ call.ret = Some(TRUE)

\* ------------------------------------- a StopStringProcessor and its caller
\* A processor instance on which process_token is called for one token
\* after another, whatever the earlier results were. The caller keeps every
\* result it was given (held). A full_stop result carries the processor's
\* buffer itself, not a copy: "list" names the list object a held result's
\* stop_tokens is, and 0 stands for None.
\* Largest number of process_token calls on an instance.
MaxCalls == 3

ProcessorInit ==
    /\ stop_strings \in StopLists
    /\ pc = "processor"
    /\ token_id_buffer = <<>>
    /\ stop_processor_result = NoResult
    /\ pulled = <<>>
    /\ held = <<>>
    /\ call = NoCall
    /\ max_tokens = 0
    /\ top_logprobs = None
    /\ token_buffer = <<>>
    /\ top_logprobs_buffer = <<>>
    /\ text = <<>>
    /\ requested = 0
    /\ emitted = <<>>

\* The list object self.token_id_buffer is bound to: the one __init__ made,
\* or the one made by the latest "self.token_id_buffer = []".
BufferObject(h) ==
    1 + Cardinality({i \in 1..Len(h) :
                        /\ h[i].result.status = "no_match"
                        /\ h[i].rebound})

\* What the caller holds after a call: append(tokens) extends the buffer
\* object in place, so every held result whose stop_tokens is that object
\* reads the longer list; the new result is added.
HeldAfter(h, ss, tokens, result) ==
    LET object == BufferObject(h)
        seen == [i \in 1..Len(h) |->
                    IF Len(ss) # 0 /\ h[i].list = object
                    THEN [h[i] EXCEPT !.result.stop_tokens =
                              Some(Append(h[i].result.stop_tokens[1], tokens))]
                    ELSE h[i]]
    IN  Append(seen, [result |-> result,
                      list |-> IF result.stop_tokens # None THEN object ELSE 0,
                      rebound |-> Len(ss) # 0 /\ result.status = "no_match"])

ProcessToken(token) ==
    /\ pc = "processor"
    /\ Len(pulled) < MaxCalls
    /\ LET pt == process_token(stop_strings, token_id_buffer, token)
       IN  /\ token_id_buffer' = pt.buffer
           /\ stop_processor_result' = pt.result
           /\ held' = HeldAfter(held, stop_strings, token, pt.result)
    /\ pulled' = Append(pulled, token)
    /\ UNCHANGED <<stop_strings, max_tokens, top_logprobs, pc, token_buffer,
                   top_logprobs_buffer, text, requested, emitted, call>>

ProcessorNext == \E token \in Vocabulary : ProcessToken(token)

ProcessorSpec == ProcessorInit /\ [][ProcessorNext]_vars

\* C14: the pending token buffer is non-empty only while the decoded text of
\* the buffer has a non-empty suffix that is a prefix of some stop string or
\* a non-empty suffix of the buffer is a prefix of some stop token sequence;
\* it is empty whenever the last verdict is no-match.
C14_PendingBufferInvariant ==
    /\ token_id_buffer # <<>> =>
          \/ \E k \in 1..Len(stop_strings) :
                 SuffixIsPrefix(Decode(token_id_buffer), stop_strings[k])
          \/ \E k \in 1..Len(stop_strings) :
                 SuffixIsPrefix(token_id_buffer,
                                StopTokenSequences(stop_strings)[k])
    /\ stop_processor_result.status = "no_match" => token_id_buffer = <<>>

\* C15: the step in which process_token returns full-stop leaves the token
\* loop and emits the final result, the one with a stop condition; after it
\* no token is requested from the source and nothing else is emitted.
C15_FullStopEndsRun ==
    /\ [][(pulled' # pulled /\ stop_processor_result'.status = "full_stop")
            => /\ pc' = "done"
               /\ Len(emitted') = Len(emitted) + 1
               /\ emitted'[Len(emitted')].stop_condition # None]_vars
    /\ [][stop_processor_result.status = "full_stop"
            => /\ requested' = requested
               /\ pulled' = pulled
               /\ emitted' = emitted]_vars
    /\ [](stop_processor_result.status = "full_stop" => pc = "done")

\* A full stop with budget left, after results were already emitted.
C15_Witness ==
    /\ pc = "done"
    /\ stop_processor_result.status = "full_stop"
    /\ requested < max_tokens
    /\ Len(emitted) >= 2

\* C16: when the token source ends while the last verdict is partial-match,
\* the final result carries all the text, token records and top-logprob
\* entries accumulated since the previous emission, and its stop condition
\* is end-of-sequence or max-tokens with no stop string.
C16_SourceEndsDuringPartialMatch ==
    [][(/\ pc = "loop"
        /\ pc' = "done"
        /\ pulled' = pulled
        /\ stop_processor_result.status = "partial_match")
       => /\ Len(emitted') = Len(emitted) + 1
          /\ SubSeq(emitted', 1, Len(emitted)) = emitted
          /\ LET last == emitted'[Len(emitted')]
             IN  /\ last.text = text
                 /\ last.tokens = token_buffer
                 /\ last.top_logprobs = top_logprobs_buffer
                 /\ last.stop_condition # None
                 /\ last.stop_condition[1].stop_reason
                        \in {"eos_token", "max_tokens"}
                 /\ last.stop_condition[1].stop_string = None
                 /\ last.stop_condition[1].stop_tokens = None]_vars

\* End-of-sequence with budget left, while two tokens with visible text are
\* withheld for a partial match.
C16_Witness ==
    /\ pc = "done"
    /\ stop_processor_result.status = "partial_match"
    /\ requested < max_tokens
    /\ Len(emitted) = 1
    /\ Len(LastEmitted.tokens) = 2
    /\ Len(LastEmitted.text) = 2
    /\ LastEmitted.stop_condition[1].stop_reason = "eos_token"

\* The verdicts of the calls made so far, in call order.
Verdicts == [i \in 1..Len(held) |-> held[i].result.status]

\* How many calls were made up to and including the latest no-match.
LastNoMatch ==
    LET at == {0} \cup {i \in 1..Len(held) : Verdicts[i] = "no_match"}
    IN  CHOOSE i \in at : \A j \in at : j <= i

\* The tokens processed since the latest no-match, or since the start.
SinceLastNoMatch == SubSeq(pulled, LastNoMatch + 1, Len(pulled))

\* C17: a full-stop result names a configured stop string that occurs in the
\* decoded buffer, and its stop_tokens are the whole pending buffer: the
\* tokens processed since the latest no-match verdict (or since the start),
\* in order, the last of them the token just processed.
C17_StopTokensAreWholeBuffer ==
    stop_processor_result.status = "full_stop" =>
        /\ stop_processor_result.stop_string # None
        /\ \E k \in 1..Len(stop_strings) :
               stop_processor_result.stop_string = Some(stop_strings[k])
        /\ Occurrences(Decode(token_id_buffer),
                       stop_processor_result.stop_string[1]) # {}
        /\ stop_processor_result.stop_tokens = Some(token_id_buffer)
        /\ token_id_buffer = SinceLastNoMatch
        /\ token_id_buffer[Len(token_id_buffer)] = pulled[Len(pulled)]

\* A no-match, then a partial match, then the full stop: stop_tokens are the
\* last two tokens.
C17_Witness ==
    /\ pc = "processor"
    /\ Verdicts = <<"no_match", "partial_match", "full_stop">>
    /\ stop_processor_result.stop_tokens = Some(SubSeq(pulled, 2, 3))

\* The token records of all emitted results, in emission order.
RECURSIVE EmittedTokensUpTo(_)
EmittedTokensUpTo(n) ==
    IF n = 0 THEN <<>> ELSE EmittedTokensUpTo(n - 1) \o emitted[n].tokens

\* The top-logprob entries of all emitted results, in emission order.
RECURSIVE EmittedTopLogprobsUpTo(_)
EmittedTopLogprobsUpTo(n) ==
    IF n = 0 THEN <<>>
    ELSE EmittedTopLogprobsUpTo(n - 1) \o emitted[n].top_logprobs

\* C18: in a completed run the tokens lists of the emitted results,
\* concatenated in emission order, are the tokens pulled from the source,
\* each once and in order; with top_logprobs requested the top_logprobs
\* lists likewise hold one entry per pulled token in order, and with none
\* requested every top_logprobs list is empty.
C18_TokenRecordConservation ==
    pc = "done" =>
        /\ Ids(EmittedTokensUpTo(Len(emitted))) = pulled
        /\ \A i \in 1..Len(pulled) :
               EmittedTokensUpTo(Len(emitted))[i] = TokenLogprob(pulled[i])
        /\ IF top_logprobs[1] # 0
           THEN EmittedTopLogprobsUpTo(Len(emitted)) =
                    [i \in 1..Len(pulled) |->
                        summarize_top_logprobs(pulled[i], top_logprobs[1])]
           ELSE \A n \in 1..Len(emitted) : emitted[n].top_logprobs = <<>>

\* A run ended by a stop string whose tokens arrive after an emission, with
\* top_logprobs requested.
C18_Witness ==
    /\ pc = "done"
    /\ top_logprobs = Some(MAX_TOP_LOGPROBS)
    /\ stop_processor_result.status = "full_stop"
    /\ Len(pulled) = 3
    /\ Len(emitted) = 2
    /\ Len(LastEmitted.tokens) = 2
    /\ Len(LastEmitted.top_logprobs) = 2

\* Every token processed so far decodes to its own text wherever it stands:
\* the decoding of the stream is the concatenation of the per-token texts.
RECURSIVE ConcatTexts(_)
ConcatTexts(seq) ==
    IF seq = <<>> THEN <<>>
    ELSE ConcatTexts(SubSeq(seq, 1, Len(seq) - 1)) \o TokText(seq[Len(seq)])

Concatenative ==
    /\ \A i \in 1..Len(pulled) : pulled[i] \in TextTokens
    /\ Decode(pulled) = ConcatTexts(pulled)

\* C19: for token streams whose decoding is the concatenation of the
\* per-token texts, after every call the verdict is full-stop exactly when
\* the decoded text of all tokens processed so far contains some stop
\* string; so the first full-stop comes at the first step at which the whole
\* text contains a stop string, whatever was cleared from the buffer before.
C19_BufferedEqualsWholeText ==
    (pulled # <<>> /\ Concatenative) =>
        ((stop_processor_result.status = "full_stop")
            = (\E k \in 1..Len(stop_strings) :
                   Occurrences(Decode(pulled), stop_strings[k]) # {}))

\* The buffer was cleared after the first token; the stop string "ab" then
\* arrives over two tokens and is found in the buffer and in the whole text.
C19_Witness ==
    /\ pc = "processor"
    /\ stop_strings = << <<"a", "b">>, <<"b">> >>
    /\ pulled = <<5, 1, 2>>
    /\ Concatenative
    /\ token_id_buffer = <<1, 2>>
    /\ stop_processor_result.status = "full_stop"
    /\ Occurrences(Decode(pulled), <<"a", "b">>) = {1}

\* C20: for token streams whose decoding is the concatenation of the
\* per-token texts, a call on a processor whose last verdict is full-stop
\* appends its token to the buffer that was kept and returns full-stop
\* again; and the stop_tokens of every full-stop result the caller holds is
\* the processor's buffer itself, so it reads as the buffer reads now.
C20_FullStopNeverReset ==
    /\ [][(/\ stop_processor_result.status = "full_stop"
           /\ pulled' # pulled
           /\ Concatenative')
          => /\ stop_processor_result'.status = "full_stop"
             /\ token_id_buffer' =
                    Append(token_id_buffer, pulled'[Len(pulled')])]_vars
    /\ [](Concatenative =>
            \A i \in 1..Len(held) :
                held[i].result.status = "full_stop" =>
                    /\ held[i].list = BufferObject(held)
                    /\ held[i].result.stop_tokens = Some(token_id_buffer))

\* Two calls after the first full stop: the result of the first call now
\* reads a stop_tokens list of three tokens.
C20_Witness ==
    /\ pc = "processor"
    /\ Concatenative
    /\ Verdicts = <<"full_stop", "full_stop", "full_stop">>
    /\ held[1].result.stop_tokens = Some(pulled)
    /\ pulled[2] # pulled[3]
====
